---- MODULE Spec2Model ----
(***************************************************************************)
(* Model of nite_stdcmd: the StdCmd module (start / stop / create_server / *)
(* on_command and the built-in handlers), the CommandServer listening     *)
(* socket and the CommandHandler connections, all driven by               *)
(* asyncore.loop(timeout=5, count=1) over asyncore's process-wide socket  *)
(* map.                                                                    *)
(*                                                                         *)
(* Text is modelled as a sequence of one-character strings; "xFF" stands  *)
(* for one byte that is not valid UTF-8.                                   *)
(***************************************************************************)
EXTENDS Integers, Sequences, FiniteSets, TLC

\* ------------------------------------------------------------------ bounds
MaxStarts == 2      \* number of start() calls explored (thread ids 1..MaxStarts)
NConn     == 2      \* number of client connections
MaxSends  == 4      \* client operations (connect, send, close) in total

Threads == 1..MaxStarts
Conns   == 1..NConn

\* ------------------------------------------------------------------ text
s_help   == <<"h", "e", "l", "p">>
s_stop   == <<"s", "t", "o", "p">>
s_reload == <<"r", "e", "l", "o", "a", "d">>

\* bytes.rstrip() strips ASCII whitespace
Whitespace == {" ", "\t", "\n"}
\* bytes that decode('UTF8', 'ignore') drops
InvalidBytes == {"xFF"}

RECURSIVE Rstrip(_)
Rstrip(b) ==
    IF b = <<>> THEN <<>>
    ELSE IF b[Len(b)] \in Whitespace THEN Rstrip(SubSeq(b, 1, Len(b) - 1))
    ELSE b

IsValidByte(x) == x \notin InvalidBytes
Decode(b) == SelectSeq(b, IsValidByte)

\* the read without the rstrip()
ReadDataNoStrip(chunk) == Decode(chunk)

\* data = self.recv(8192).rstrip().decode('UTF8', 'ignore')
ReadData(chunk) == Decode(Rstrip(chunk))

\* cmd_event.command.split(' ')[0]
RECURSIVE SplitFirst(_)
SplitFirst(s) ==
    IF s = <<>> THEN <<>>
    ELSE IF Head(s) = " " THEN <<>>
    ELSE <<Head(s)>> \o SplitFirst(Tail(s))

InvalidPrefix ==
    <<"I", "n", "v", "a", "l", "i", "d", " ", "c", "o", "m", "m", "a", "n", "d", ":", " ">>
InvalidSuffix ==
    <<"\n", "T", "r", "y", " ", "u", "s", "i", "n", "g", " ", "\"", "h", "e", "l", "p", "\"",
      " ", "f", "o", "r", " ", "a", " ", "l", "i", "s", "t", " ", "o", "f", " ",
      "c", "o", "m", "m", "a", "n", "d", "s">>

\* 'Invalid command: %s\nTry using "help" for a list of commands' % cmd_event.command
InvalidResponse(command) == InvalidPrefix \o command \o InvalidSuffix

\* sub occurs in s as a contiguous substring
Contains(s, sub) ==
    \E i \in 1..(Len(s) - Len(sub) + 1) : SubSeq(s, i, i + Len(sub) - 1) = sub

\* ------------------------------------------------------------------ configuration
\* nite.command.bind_address values: empty (server disabled), a filesystem
\* path (no colon) and host:port
AddrNone == <<>>
AddrUnix == <<"/", "n">>
AddrTcp  == <<"h", ":", "9">>

\* len(bind_address.split(':')) == 1 selects AF_UNIX
IsUnix(addr) == \A i \in 1..Len(addr) : addr[i] # ":"

Configs ==
    { [bind_address |-> AddrNone, listen_backlog |-> 5],
      [bind_address |-> AddrUnix, listen_backlog |-> 5],
      [bind_address |-> AddrTcp,  listen_backlog |-> 1] }

\* ------------------------------------------------------------------ registry
BuiltinHandlers ==
    (s_help   :> [desc |-> "Show this help menu", fn |-> "on_help_command"]) @@
    (s_stop   :> [desc |-> "Stop NITE",           fn |-> "on_stop_command"]) @@
    (s_reload :> [desc |-> "Reload NITE",         fn |-> "on_reload_command"])

\* the module has no handlers attribute before the first start()
NoHandlers == <<>>

\* iteration order of self.handlers.items()
HandlerOrder == <<s_help, s_stop, s_reload>>

RECURSIVE RenderRows(_, _)
RenderRows(h, order) ==
    IF order = <<>> THEN <<>>
    ELSE (IF Head(order) \in DOMAIN h
          THEN Head(order) \o <<"|", h[Head(order)].desc, "\n">>
          ELSE <<>>) \o RenderRows(h, Tail(order))

\* str(table) of the PrettyTable(['Command', 'Description']) filled from the registry
RenderHelp(h) == <<"Command", "|", "Description", "\n">> \o RenderRows(h, HandlerOrder)

NoResponse == <<>>

\* what recv() finds once the peer has closed its end: zero bytes
EOF == <<"EOF">>

VARIABLES
    cfg,        \* the host configuration read by start()
    handlers,   \* StdCmd.handlers
    thread,     \* StdCmd.thread: id of the Thread object, 0 = None
    terminate,  \* StdCmd.terminate: id of the threading.Event object, 0 = none yet
    server,     \* StdCmd.server: id of the CommandServer object, 0 = none yet
    isSet,      \* isSet[e]: the flag of Event object e
    pc,         \* pc[t]: position of thread t in create_server
    kwargs,     \* kwargs[t]: the arguments thread t was created with
    todo,       \* todo[t]: sockets select() reported readable in t's current poll pass
    reading,    \* reading[t]: the connection whose handle_read thread t is inside,
                \* between its recv() and its dispatch; 0 = none
    srv,        \* srv[s]: state of the listening socket of CommandServer s
    nstarts,    \* number of start() calls so far
    regs,       \* number of times on_command is registered on the host event bus
    hostUp,     \* the host (NITE) is started
    conn,       \* conn[c]: state of connection c
    connSrv,    \* connSrv[c]: the CommandServer whose socket c connected to
    inbox,      \* inbox[c]: what the next recv() on c finds: "none" (nothing yet),
                \* "data" (a chunk the peer has sent) or "eof" (the peer has closed)
    sent,       \* number of client operations so far
    outbox,     \* outbox[c]: what has been written to connection c
    asked,      \* threads still running the loop that were running it when a
                \* stop() set the Event
    lastRead,   \* the recv() of the handle_read that has just run, if any
    lastEv,     \* the CommandEvent of the handle_read that has just run, if any
    startRet    \* startRet[n]: how the n-th start() call returned

vars == <<cfg, handlers, thread, terminate, server, isSet, pc, kwargs, todo, reading, srv,
          nstarts, regs, hostUp, conn, connSrv, inbox, sent, outbox,
          asked, lastRead, lastEv, startRet>>

NoKwargs == [bind_address |-> AddrNone, listen_backlog |-> 0]
NoEvent  == [conn |-> 0, thread |-> 0, command |-> <<>>, response |-> NoResponse,
             handled |-> FALSE, calls |-> 0, raised |-> FALSE, fn |-> "none",
             veto |-> FALSE]

NoRead   == [conn |-> 0, thread |-> 0, chunk |-> <<>>]

\* the part of the state that start() and stop() read and write
Ctl ==
    [handlers |-> handlers, thread |-> thread, terminate |-> terminate,
     isSet |-> isSet, pc |-> pc, kwargs |-> kwargs, nstarts |-> nstarts,
     regs |-> regs, hostUp |-> hostUp, startRet |-> startRet, asked |-> asked]

SetCtl(s) ==
    /\ handlers' = s.handlers
    /\ thread' = s.thread
    /\ terminate' = s.terminate
    /\ isSet' = s.isSet
    /\ pc' = s.pc
    /\ kwargs' = s.kwargs
    /\ nstarts' = s.nstarts
    /\ regs' = s.regs
    /\ hostUp' = s.hostUp
    /\ startRet' = s.startRet
    /\ asked' = s.asked

Init ==
    /\ cfg \in Configs
    /\ handlers = NoHandlers
    /\ thread = 0
    /\ terminate = 0
    /\ server = 0
    /\ isSet = [e \in Threads |-> FALSE]
    /\ pc = [t \in Threads |-> "unborn"]
    /\ kwargs = [t \in Threads |-> NoKwargs]
    /\ todo = [t \in Threads |-> {}]
    /\ reading = [t \in Threads |-> 0]
    /\ srv = [s \in Threads |-> "none"]
    /\ nstarts = 0
    /\ regs = 0
    /\ hostUp = FALSE
    /\ conn = [c \in Conns |-> "idle"]
    /\ connSrv = [c \in Conns |-> 0]
    /\ inbox = [c \in Conns |-> "none"]
    /\ sent = 0
    /\ outbox = [c \in Conns |-> <<>>]
    /\ asked = {}
    /\ lastRead = NoRead
    /\ lastEv = NoEvent
    /\ startRet = [n \in Threads |-> "none"]

\* ------------------------------------------------------------------ StdCmd.start / stop
\* start() as it would be if it spawned the server whatever the address
BindAlways(addr) == TRUE

\* `if bind_address:` an empty address disables the server
BindConfigured(addr) == addr # AddrNone

\* start() as it would be if the backlog were not taken from the configuration
StartOpDefaultBacklog(s) ==
    LET n  == s.nstarts + 1
        s1 == [s EXCEPT !.handlers = BuiltinHandlers, !.nstarts = n]
        s2 == IF BindConfigured(cfg.bind_address)
              THEN [s1 EXCEPT !.thread = n,
                              !.terminate = n,
                              !.kwargs[n] = [bind_address |-> cfg.bind_address,
                                             listen_backlog |-> 5],
                              !.pc[n] = "spawned"]
              ELSE s1
    IN  [s2 EXCEPT !.regs = s.regs + 1, !.startRet[n] = "returned"]

\* StdCmd.start(): the n-th call creates Thread n and Event n
StartOp(s) ==
    LET n  == s.nstarts + 1
        s1 == [s EXCEPT !.handlers = BuiltinHandlers, !.nstarts = n]
        s2 == IF BindConfigured(cfg.bind_address)
              THEN [s1 EXCEPT !.thread = n,
                              !.terminate = n,
                              !.kwargs[n] = [bind_address |-> cfg.bind_address,
                                             listen_backlog |-> cfg.listen_backlog],
                              !.pc[n] = "spawned"]
              ELSE s1
    IN  [s2 EXCEPT !.regs = s.regs + 1, !.startRet[n] = "returned"]

\* threads inside the `while not self.terminate.is_set()` loop of create_server
Looping(s) == {t \in Threads : s.pc[t] \in {"check", "pass", "read"}}

\* stop() as it would be with the self.thread.join() of line 229: a caller
\* that is the server thread itself waits for its own end
StopJoinOp(s, caller) ==
    IF s.thread # 0
    THEN IF caller = s.thread
         THEN [s EXCEPT !.isSet[s.terminate] = TRUE, !.pc[caller] = "joining",
                        !.asked = @ \cup Looping(s)]
         ELSE [s EXCEPT !.isSet[s.terminate] = TRUE, !.asked = @ \cup Looping(s)]
    ELSE s

\* StdCmd.stop(): sets the Event self.terminate refers to; it does not join
StopOp(s, caller) ==
    IF s.thread # 0
    THEN [s EXCEPT !.isSet[s.terminate] = TRUE, !.asked = @ \cup Looping(s)]
    ELSE s

\* the host's stop() and start() entry points, which run the module's
HostStop(s, caller) == [StopOp(s, caller) EXCEPT !.hostUp = FALSE]
HostStart(s) == [StartOp(s) EXCEPT !.hostUp = TRUE]

\* ------------------------------------------------------------------ dispatch
\* A dispatch in progress: the event, the controller state, whether a
\* listener raised, whether a start() beyond MaxStarts was needed, and the
\* number of on_command invocations.
NewDispatch(command, s) ==
    [ev |-> [command |-> command, response |-> NoResponse, handled |-> FALSE],
     s |-> s, raised |-> FALSE, over |-> FALSE, calls |-> 0, fn |-> "none"]

\* what a listener of higher priority leaves in an event it has answered
VetoResponse == <<"v">>

\* on_command is registered with EventPriority.LOWEST: a listener that the
\* bus runs before it may have answered the event and set handled
PriorListener(r, veto) ==
    IF veto THEN [r EXCEPT !.ev.handled = TRUE, !.ev.response = VetoResponse]
    ELSE r

\* StdCmd.on_help_command: int(os.popen('stty size').read().split()[0])
\* raises IndexError when the process has no terminal
OnHelpCommand(r, tty) ==
    IF tty
    THEN [r EXCEPT !.ev.response = RenderHelp(r.s.handlers), !.fn = "on_help_command"]
    ELSE [r EXCEPT !.raised = TRUE, !.fn = "on_help_command"]

\* StdCmd.on_stop_command
OnStopCommand(r, caller) ==
    [r EXCEPT !.s = HostStop(r.s, caller), !.fn = "on_stop_command"]

\* StdCmd.on_reload_command
OnReloadCommand(r, caller) ==
    IF r.s.nstarts >= MaxStarts
    THEN [r EXCEPT !.over = TRUE]
    ELSE [r EXCEPT !.s = HostStart(HostStop(r.s, caller)), !.fn = "on_reload_command"]

\* on_command as it would be without the test of cmd_event.handled
OnCommandNoHandledTest(r, tty, caller) ==
    LET r1 == [r EXCEPT !.calls = r.calls + 1]
        command == SplitFirst(r.ev.command)
    IN  IF command \in DOMAIN r.s.handlers
        THEN LET fn == r.s.handlers[command].fn
             IN  CASE fn = "on_help_command"   -> OnHelpCommand(r1, tty)
                   [] fn = "on_stop_command"   -> OnStopCommand(r1, caller)
                   [] fn = "on_reload_command" -> OnReloadCommand(r1, caller)
        ELSE [r1 EXCEPT !.ev.response = InvalidResponse(r.ev.command)]

\* StdCmd.on_command
OnCommand(r, tty, caller) ==
    LET r1 == [r EXCEPT !.calls = r.calls + 1]
        command == SplitFirst(r.ev.command)
    IN  IF r.ev.handled THEN r1
        ELSE IF command \in DOMAIN r.s.handlers
        THEN LET fn == r.s.handlers[command].fn
             IN  CASE fn = "on_help_command"   -> OnHelpCommand(r1, tty)
                   [] fn = "on_stop_command"   -> OnStopCommand(r1, caller)
                   [] fn = "on_reload_command" -> OnReloadCommand(r1, caller)
        ELSE [r1 EXCEPT !.ev.response = InvalidResponse(r.ev.command)]

\* NITE.events.handle(cmd_event): the bus invokes each registration of
\* on_command in turn; an exception ends the firing
RECURSIVE Fire(_, _, _, _)
Fire(r, n, tty, caller) ==
    IF n = 0 \/ r.raised \/ r.over THEN r
    ELSE Fire(OnCommand(r, tty, caller), n - 1, tty, caller)

EventsHandle(command, s, tty, caller, veto) ==
    Fire(PriorListener(NewDispatch(command, s), veto), s.regs, tty, caller)

\* ------------------------------------------------------------------ sockets
Max(S) == CHOOSE x \in S : \A y \in S : y <= x

\* servers whose bind succeeded
Bound == {s \in Threads : srv[s] \in {"listening", "closed"}}

\* the server a new connection to the configured address reaches: the one
\* bound last (binding a Unix path unlinks the previous socket file)
Target == IF Bound = {} THEN 0 ELSE Max(Bound)

Queued(s) == {c \in Conns : conn[c] = "queued" /\ connSrv[c] = s}

\* what select() over asyncore.socket_map reports readable
Ready ==
    {<<"srv", s>> : s \in {x \in Threads : srv[x] = "listening" /\ Queued(x) # {}}}
    \cup
    {<<"conn", c>> : c \in {x \in Conns : conn[x] = "open"
                                          /\ inbox[x] # "none"}}

\* dispatcher.close() of listening socket s: pending connections are reset
CloseServer(s) ==
    /\ srv' = [srv EXCEPT ![s] = "closed"]
    /\ conn' = [c \in Conns |-> IF c \in Queued(s) THEN "closed" ELSE conn[c]]

\* handle_close as it would be if it closed every open connection
HandleCloseAll(c) == [d \in Conns |-> IF conn[d] = "open" THEN "closed" ELSE conn[d]]

\* CommandHandler.handle_close: self.close() of connection c
HandleClose(c) == [conn EXCEPT ![c] = "closed"]

\* a send that goes to the connection accepted first
SendToFirst(c) == 1

\* self.send(...) writes to the handler's own socket
SendTo(c) == c

\* ------------------------------------------------------------------ host actions
\* the host starts its modules: StdCmd.start() on the host's main thread.
\* The host process does this once; a stopped host ends, and a later
\* start() is the one a reload runs right after its stop().
Start ==
    /\ ~hostUp
    /\ nstarts = 0
    /\ nstarts < MaxStarts
    /\ SetCtl(HostStart(Ctl))
    /\ lastRead' = NoRead
    /\ lastEv' = NoEvent
    /\ UNCHANGED <<cfg, server, todo, reading, srv, conn, connSrv, inbox, sent,
                   outbox>>

\* the host stops its modules: StdCmd.stop() on the host's main thread
Stop ==
    /\ hostUp
    /\ SetCtl(HostStop(Ctl, 0))
    /\ lastRead' = NoRead
    /\ lastEv' = NoEvent
    /\ UNCHANGED <<cfg, server, todo, reading, srv, conn, connSrv, inbox, sent,
                   outbox>>

\* ------------------------------------------------------------------ thread t: create_server
\* CommandServer.__init__ as the first statement of create_server.
\* removeOK: os.remove(bind_address) succeeds; bindErr: the environment
\* refuses the bind (address held by another process, permission denied).
CreateServer(t) ==
    /\ pc[t] = "spawned"
    /\ \E removeOK \in BOOLEAN, bindErr \in BOOLEAN :
         LET addr   == kwargs[t].bind_address
             bindOK == /\ ~bindErr
                       /\ IsUnix(addr) => (removeOK \/ Bound = {})
                       /\ ~IsUnix(addr) => (\A s \in Threads : srv[s] # "listening")
         IN  IF bindOK
             THEN /\ srv' = [srv EXCEPT ![t] = "listening"]
                  /\ server' = t
                  /\ pc' = [pc EXCEPT ![t] = "check"]
             ELSE /\ srv' = [srv EXCEPT ![t] = "failed"]
                  /\ server' = server
                  /\ pc' = [pc EXCEPT ![t] = "crashed"]
    /\ lastRead' = NoRead
    /\ lastEv' = NoEvent
    /\ UNCHANGED <<cfg, handlers, thread, terminate, isSet, kwargs, todo, reading,
                   nstarts, regs, hostUp, conn, connSrv, inbox, sent, outbox,
                   startRet, asked>>

\* `while not self.terminate.is_set()` finds the Event set: leave the loop
\* and run self.server.close()
LoopExit(t) ==
    /\ pc[t] = "check"
    /\ isSet[terminate]
    /\ CloseServer(server)
    /\ pc' = [pc EXCEPT ![t] = "exited"]
    /\ asked' = asked \ {t}
    /\ lastRead' = NoRead
    /\ lastEv' = NoEvent
    /\ UNCHANGED <<cfg, handlers, thread, terminate, server, isSet, kwargs, todo,
                   reading, nstarts, regs, hostUp, connSrv, inbox, sent, outbox,
                   startRet>>

\* The sockets thread t has still to handle: inside a poll pass, what is
\* left of the sockets select() reported; at the `while` test with the
\* Event not set, asyncore.loop(timeout=5, count=1) is entered and select()
\* reports the readable sockets of the process-wide socket map (a pass in
\* which select() times out handles nothing and returns to the test)
Pending(t) ==
    IF pc[t] = "pass" THEN todo[t]
    ELSE IF pc[t] = "check" /\ ~isSet[terminate] THEN Ready
    ELSE {}

\* asyncore.loop(count=1) returns to the `while` test once every socket
\* that select() reported has been handled; o is the one being handled
Return(s, t, o) ==
    IF s.pc[t] \in {"check", "pass"}
    THEN [s EXCEPT !.pc[t] = IF Pending(t) \ {o} = {} THEN "check" ELSE "pass"]
    ELSE s

\* asyncore.read(server s) in thread t's pass: CommandServer.handle_accept.
\* A socket no longer in the map is skipped; accept() returning None (the
\* pending connection was taken by another pass) makes the tuple unpacking
\* raise, and asyncore's handle_error closes the listening socket.
HandleAccept(t, s) ==
    /\ <<"srv", s>> \in Pending(t)
    /\ todo' = [todo EXCEPT ![t] = Pending(t) \ {<<"srv", s>>}]
    /\ pc' = Return(Ctl, t, <<"srv", s>>).pc
    /\ IF srv[s] # "listening"
       THEN UNCHANGED <<srv, conn>>
       ELSE IF Queued(s) # {}
       THEN /\ \E c \in Queued(s) : conn' = [conn EXCEPT ![c] = "open"]
            /\ srv' = srv
       ELSE CloseServer(s)
    /\ lastRead' = NoRead
    /\ lastEv' = NoEvent
    /\ UNCHANGED <<cfg, handlers, thread, terminate, server, isSet, kwargs, reading,
                   nstarts, regs, hostUp, connSrv, inbox, sent, outbox,
                   startRet, asked>>

\* commands the clients send, as raw bytes
Chunks ==
    { s_help \o <<"\n">>,
      s_stop \o <<"\n">>,
      s_reload \o <<"\n">>,
      <<"x", " ", "y", "\n">>,
      s_help \o <<" ", "x", "\n">>,
      s_help \o <<"\t", "x", "\n">>,
      <<" ">> \o s_help \o <<"\n">>,
      <<" ", "\n">>,
      <<"xFF", " ", "\n">> }

\* the thread leaves a callback: back to the sockets select() reported, or
\* to the `while` test when none is left
Resume(s, t) ==
    IF s.pc[t] = "read"
    THEN [s EXCEPT !.pc[t] = IF todo[t] = {} THEN "check" ELSE "pass"]
    ELSE s

\* asyncore.read(connection c) in thread t's pass: CommandHandler.handle_read
\* up to the end of its recv(). A socket no longer in the map is skipped; a
\* recv() that finds data leaves the thread inside handle_read.
HandleRead(t, c) ==
    /\ <<"conn", c>> \in Pending(t)
    /\ todo' = [todo EXCEPT ![t] = Pending(t) \ {<<"conn", c>>}]
    /\ lastEv' = NoEvent
    /\ IF conn[c] # "open"
       THEN \* closed earlier in this pass or by another pass: not in the map
            /\ pc' = Return(Ctl, t, <<"conn", c>>).pc
            /\ lastRead' = NoRead
            /\ UNCHANGED <<conn, inbox, reading>>
       ELSE IF inbox[c] # "data"
       THEN \* recv() returned b'' (peer closed) or raised (data taken by
            \* another pass): handle_close
            /\ conn' = HandleClose(c)
            /\ pc' = Return(Ctl, t, <<"conn", c>>).pc
            /\ lastRead' = [conn |-> c, thread |-> t,
                            chunk |-> IF inbox[c] = "eof" THEN EOF ELSE <<>>]
            /\ UNCHANGED <<inbox, reading>>
       ELSE /\ inbox' = [inbox EXCEPT ![c] = "none"]
            /\ pc' = [pc EXCEPT ![t] = "read"]
            /\ reading' = [reading EXCEPT ![t] = c]
            /\ lastRead' = NoRead
            /\ conn' = conn
    /\ UNCHANGED <<cfg, handlers, thread, terminate, server, isSet, kwargs, srv, nstarts,
                   regs, hostUp, connSrv, sent, outbox, startRet, asked>>

\* the rest of handle_read in thread t, on the chunk its recv() returned.
\* chunk: the bytes the peer had sent; tty: `stty size` finds a terminal;
\* veto: a listener of higher priority has answered the event.
HandleReadData(t) ==
    /\ pc[t] = "read"
    /\ reading' = [reading EXCEPT ![t] = 0]
    /\ \E chunk \in Chunks :
         LET c    == reading[t]
             data == ReadData(chunk)
         IN  /\ lastRead' = [conn |-> c, thread |-> t, chunk |-> chunk]
             /\ IF data = <<>>
                THEN /\ SetCtl(Resume(Ctl, t))
                     /\ lastEv' = NoEvent
                     /\ UNCHANGED <<conn, outbox>>
                ELSE \E tty \in BOOLEAN, veto \in BOOLEAN :
                     LET r == EventsHandle(data, Ctl, tty, t, veto)
                     IN  /\ ~r.over
                         /\ SetCtl(Resume(r.s, t))
                         /\ lastEv' = [conn |-> c, thread |-> t,
                                       command |-> r.ev.command,
                                       response |-> r.ev.response,
                                       handled |-> r.ev.handled,
                                       calls |-> r.calls, raised |-> r.raised,
                                       fn |-> r.fn, veto |-> veto]
                         /\ IF r.raised
                            THEN \* asyncore's handle_error: handle_close
                                 /\ conn' = HandleClose(c)
                                 /\ outbox' = outbox
                            ELSE /\ conn' = conn
                                 /\ IF r.ev.response # NoResponse /\ conn[c] = "open"
                                    THEN outbox' = [outbox EXCEPT ![SendTo(c)] =
                                             Append(@, [from |-> c,
                                                        text |-> r.ev.response \o <<"\n">>])]
                                    ELSE outbox' = outbox
    /\ UNCHANGED <<cfg, server, srv, connSrv, inbox, sent, todo>>

\* ------------------------------------------------------------------ clients
\* a client connects to the configured address (clients are numbered in
\* the order they connect)
Connect(c) ==
    /\ conn[c] = "idle"
    /\ \A d \in Conns : d < c => conn[d] # "idle"
    /\ Target # 0
    /\ srv[Target] = "listening"
    /\ sent < MaxSends
    /\ sent' = sent + 1
    /\ conn' = [conn EXCEPT ![c] = "queued"]
    /\ connSrv' = [connSrv EXCEPT ![c] = Target]
    /\ lastRead' = NoRead
    /\ lastEv' = NoEvent
    /\ UNCHANGED <<cfg, handlers, thread, terminate, server, isSet, pc, kwargs, todo, reading,
                   srv, nstarts, regs, hostUp, inbox, outbox,
                   startRet, asked>>

\* a client sends one chunk (its bytes are drawn where handle_read reads them)
Send(c) ==
    /\ conn[c] = "open"
    /\ inbox[c] = "none"
    /\ sent < MaxSends
    /\ inbox' = [inbox EXCEPT ![c] = "data"]
    /\ sent' = sent + 1
    /\ lastRead' = NoRead
    /\ lastEv' = NoEvent
    /\ UNCHANGED <<cfg, handlers, thread, terminate, server, isSet, pc, kwargs, todo, reading,
                   srv, nstarts, regs, hostUp, conn, connSrv, outbox, startRet, asked>>

\* a client closes its end of the connection
PeerClose(c) ==
    /\ conn[c] = "open"
    /\ inbox[c] = "none"
    /\ sent < MaxSends
    /\ inbox' = [inbox EXCEPT ![c] = "eof"]
    /\ sent' = sent + 1
    /\ lastRead' = NoRead
    /\ lastEv' = NoEvent
    /\ UNCHANGED <<cfg, handlers, thread, terminate, server, isSet, pc, kwargs, todo, reading,
                   srv, nstarts, regs, hostUp, conn, connSrv, outbox, startRet, asked>>

ThreadStep(t) ==
    \/ CreateServer(t)
    \/ LoopExit(t)
    \/ \E s \in Threads : HandleAccept(t, s)
    \/ \E c \in Conns : HandleRead(t, c)
    \/ HandleReadData(t)

Next ==
    \/ Start
    \/ Stop
    \/ \E t \in Threads : CreateServer(t)
    \/ \E t \in Threads : LoopExit(t)
    \/ \E t \in Threads, s \in Threads : HandleAccept(t, s)
    \/ \E t \in Threads, c \in Conns : HandleRead(t, c)
    \/ \E t \in Threads : HandleReadData(t)
    \/ \E c \in Conns : Connect(c)
    \/ \E c \in Conns : Send(c)
    \/ \E c \in Conns : PeerClose(c)

Spec == Init /\ [][Next]_vars

\* every started thread keeps running (the scheduler does not starve a thread)
FairSpec == Spec /\ \A t \in Threads : WF_vars(ThreadStep(t))

TypeOK ==
    /\ thread \in 0..MaxStarts
    /\ terminate = thread
    /\ server \in 0..MaxStarts
    /\ nstarts \in 0..MaxStarts
    /\ regs = nstarts
    /\ sent \in 0..MaxSends
    /\ \A t \in Threads :
          pc[t] \in {"unborn", "spawned", "check", "pass", "read", "exited", "crashed"}
    /\ \A t \in Threads : pc[t] \notin {"pass", "read"} => todo[t] = {}
    /\ \A t \in Threads : (pc[t] = "read") = (reading[t] # 0)
    /\ \A c \in Conns : conn[c] \in {"idle", "queued", "open", "closed"}

\* threads that are inside the `while not self.terminate.is_set()` loop
InLoop == Looping(Ctl)

\* ------------------------------------------------------------------ C1
\* C1: at most one background thread runs the event loop of the controller,
\* in every reachable state.
AtMostOneLoopThread == Cardinality(InLoop) <= 1

\* ------------------------------------------------------------------ C2
\* C2: whenever stop() is called while thread t runs the loop, t eventually
\* leaves the loop and the listening socket it served is closed, whatever
\* follows the stop().
StopLeadsToExit ==
    \A t \in Threads :
        (t \in asked) ~> (pc[t] = "exited" /\ srv[t] # "listening")

\* ------------------------------------------------------------------ C3
\* C3: stop() does not wait for the server thread: after a `stop` or `reload`
\* command has been dispatched from inside the loop thread, stop() has set
\* the Event of the thread it was called for and the dispatching thread is
\* back in its loop (neither blocked nor ended).
IsStopping(ev) ==
    ev.conn # 0 /\ ~ev.veto /\ SplitFirst(ev.command) \in {s_stop, s_reload}

StopNeverBlocks ==
    [][IsStopping(lastEv') => /\ isSet'[thread]
                              /\ pc'[lastEv'.thread] \in {"check", "pass"}]_vars

StopFromLoopThread ==
    /\ lastEv.conn # 0
    /\ ~lastEv.veto
    /\ SplitFirst(lastEv.command) = s_stop
    /\ lastEv.thread = thread
    /\ isSet[terminate]
    /\ pc[lastEv.thread] = "check"

\* ------------------------------------------------------------------ C4
\* C4: whenever binding the configured address fails, the start() call that
\* asked for the server ends in an error instead of returning normally.
BindFailureFailsStart ==
    \A n \in Threads : srv[n] = "failed" => startRet[n] = "raised"

\* ------------------------------------------------------------------ C5
\* C5: when a thread leaves the loop, the listening socket it served and
\* every connection socket open at that moment are closed.
LoopExitClosesAll ==
    [][\A t \in Threads :
          (pc[t] = "check" /\ pc'[t] = "exited")
              => (srv'[t] # "listening" /\ \A c \in Conns : conn'[c] # "open")]_vars

\* ------------------------------------------------------------------ C6
\* C6: a CommandEvent whose token is not in the registry gets a response
\* that contains 'Invalid command: ' followed by the command and mentions
\* help; handled stays false, no handler runs (the controller is left as it
\* was) and the response is written to the client.
IsUnknown(ev, h) == ev.conn # 0 /\ ~ev.veto /\ SplitFirst(ev.command) \notin DOMAIN h

UnknownCommandAnswered ==
    [][IsUnknown(lastEv', handlers) =>
          /\ Contains(lastEv'.response, InvalidPrefix \o lastEv'.command)
          /\ Contains(lastEv'.response, InvalidPrefix \o SplitFirst(lastEv'.command))
          /\ Contains(lastEv'.response, s_help)
          /\ ~lastEv'.handled
          /\ ~lastEv'.raised
          /\ UNCHANGED <<handlers, thread, terminate, isSet, nstarts, regs, hostUp, kwargs>>
          /\ outbox'[lastEv'.conn] =
                Append(outbox[lastEv'.conn],
                       [from |-> lastEv'.conn, text |-> lastEv'.response \o <<"\n">>])]_vars

\* ------------------------------------------------------------------ C7
\* C7: a received chunk that holds only whitespace, or that is empty after
\* stripping trailing whitespace and dropping undecodable bytes, creates no
\* CommandEvent and writes nothing; the connection, the controller and the
\* sockets are left as they were.
AllWhitespace(chunk) == \A i \in 1..Len(chunk) : chunk[i] \in Whitespace

IsBlank(rd) ==
    /\ rd.conn # 0
    /\ rd.chunk \notin {<<>>, EOF}
    /\ (AllWhitespace(rd.chunk) \/ Decode(Rstrip(rd.chunk)) = <<>>)

BlankChunkIgnored ==
    [][IsBlank(lastRead') =>
          /\ lastEv' = NoEvent
          /\ UNCHANGED <<outbox, conn, connSrv, srv, server, handlers, thread, terminate,
                         isSet, nstarts, regs, hostUp, kwargs, asked, cfg>>]_vars

BlankChunkRead ==
    /\ IsBlank(lastRead)
    /\ AllWhitespace(lastRead.chunk)
    /\ conn[lastRead.conn] = "open"

\* ------------------------------------------------------------------ C8
\* C8: every response line is written only to the connection on which the
\* command that produced it was read.
NoCrossTalk ==
    \A c \in Conns : \A i \in 1..Len(outbox[c]) : outbox[c][i].from = c

BothClientsAnswered ==
    /\ conn[1] = "open" /\ conn[2] = "open"
    /\ Len(outbox[1]) > 0 /\ Len(outbox[2]) > 0

\* ------------------------------------------------------------------ C9
\* C9: after a reload command the registry holds exactly help, stop and
\* reload with their descriptions, the new server thread is created with the
\* configured bind address and backlog, the same as before the reload, and
\* every listening server uses them.
IsReload(ev) ==
    ev.conn # 0 /\ ~ev.veto /\ SplitFirst(ev.command) = s_reload /\ ~ev.raised

ConfiguredKwargs ==
    [bind_address |-> cfg.bind_address, listen_backlog |-> cfg.listen_backlog]

ReloadRebuilds ==
    [][/\ IsReload(lastEv') =>
             /\ DOMAIN handlers' = {s_help, s_stop, s_reload}
             /\ handlers'[s_help].desc = "Show this help menu"
             /\ handlers'[s_stop].desc = "Stop NITE"
             /\ handlers'[s_reload].desc = "Reload NITE"
             /\ thread' # thread
             /\ pc'[thread'] = "spawned"
             /\ kwargs'[thread'] = kwargs[thread]
             /\ kwargs'[thread'] = ConfiguredKwargs'
       /\ \A s \in Threads : srv'[s] = "listening" => kwargs'[s] = ConfiguredKwargs']_vars

ReloadDone ==
    /\ IsReload(lastEv)
    /\ hostUp
    /\ thread = 2
    /\ pc[thread] = "spawned"

\* ------------------------------------------------------------------ C10
\* C10: handling a command never closes the connection: the only step that
\* moves a connection from open to closed is the read that finds the peer
\* has closed its end.
OnlyPeerCloseCloses ==
    [][\A c \in Conns : (conn[c] = "open" /\ conn'[c] = "closed") => inbox[c] = "eof"]_vars

\* ------------------------------------------------------------------ C11
\* C11: whenever the help handler runs, it sets the response to a rendering
\* that holds one row for each token of the registry, paired with that
\* token's description, and no other row; the rendering depends on the
\* registry alone, and the registry is left as it was.
RowCount(text) == Cardinality({i \in 1..Len(text) : text[i] = "\n"})

HelpListsRegistry ==
    [][lastEv'.fn = "on_help_command" =>
          /\ \A k \in DOMAIN handlers :
                Contains(lastEv'.response, k \o <<"|", handlers[k].desc, "\n">>)
          /\ RowCount(lastEv'.response) = Cardinality(DOMAIN handlers) + 1
          /\ lastEv'.response = RenderHelp(handlers)
          /\ handlers' = handlers]_vars

VetoIsNoOp ==
    [][(lastEv'.conn # 0 /\ lastEv'.veto) =>
          /\ lastEv'.calls >= 1
          /\ lastEv'.handled
          /\ lastEv'.fn = "none"
          /\ ~lastEv'.raised
          /\ lastEv'.command = ReadData(lastRead'.chunk)
          /\ lastEv'.response = VetoResponse
          /\ UNCHANGED <<handlers, thread, terminate, isSet, nstarts, regs, hostUp,
                         kwargs, asked, startRet, server, srv>>]_vars

VetoedUnknown ==
    /\ lastEv.conn # 0
    /\ lastEv.veto
    /\ lastEv.calls >= 1
    /\ SplitFirst(lastEv.command) \notin DOMAIN handlers
    /\ Len(outbox[lastEv.conn]) > 0
    /\ outbox[lastEv.conn][Len(outbox[lastEv.conn])].text = VetoResponse \o <<"\n">>

\* ------------------------------------------------------------------ C14
\* C14: the handler that a command line reaches is the one registered for
\* its first whitespace-delimited word (leading whitespace skipped, the word
\* ended by a space, a tab or a newline), and no invalid-command response
\* is produced for such a line.
RECURSIVE LStrip(_)
LStrip(s) ==
    IF s # <<>> /\ Head(s) \in Whitespace THEN LStrip(Tail(s)) ELSE s

RECURSIVE WordOf(_)
WordOf(s) ==
    IF s = <<>> \/ Head(s) \in Whitespace THEN <<>>
    ELSE <<Head(s)>> \o WordOf(Tail(s))

FirstWord(s) == WordOf(LStrip(s))

FirstWordDispatches ==
    [][(/\ lastEv'.conn # 0
        /\ ~lastEv'.veto
        /\ FirstWord(lastEv'.command) \in DOMAIN handlers) =>
          /\ lastEv'.fn = handlers[FirstWord(lastEv'.command)].fn
          /\ ~Contains(lastEv'.response, InvalidPrefix)]_vars

\* ------------------------------------------------------------------ C15
\* C15: on one connection a read is processed only once the read before it
\* has been dispatched and answered: no two handle_read calls are in
\* progress on the same connection.
OneReadPerConnection ==
    \A c \in Conns : Cardinality({t \in Threads : reading[t] = c}) <= 1

\* ------------------------------------------------------------------ C16
\* C16: at most one callback or command handler is executing at any time.
OneCallbackAtATime == Cardinality({t \in Threads : pc[t] = "read"}) <= 1

\* ------------------------------------------------------------------ C17
\* C17: a read that finds the peer has closed its end closes that
\* connection and nothing else: the other connections, the listening
\* sockets, the registry, the Event and the looping threads stay as they
\* were.
PeerCloseClosesOnlyThat ==
    [][lastRead'.chunk = EOF =>
          /\ conn'[lastRead'.conn] = "closed"
          /\ \A d \in Conns \ {lastRead'.conn} : conn'[d] = conn[d]
          /\ InLoop' = InLoop
          /\ UNCHANGED <<srv, server, handlers, thread, terminate, isSet, outbox, inbox,
                         connSrv, regs, hostUp, nstarts>>]_vars

PeerClosedOne ==
    /\ lastRead.chunk = EOF
    /\ conn[lastRead.conn] = "closed"
    /\ \E d \in Conns : conn[d] = "open"
    /\ lastRead.thread \in InLoop

\* ------------------------------------------------------------------ C18
\* C18: the Event that a looping thread tests is the one stop() set for it:
\* a thread that was running the loop when stop() was called finds the Event
\* set at every later test.
SignalNeverLost == \A t \in asked : isSet[terminate]

\* ------------------------------------------------------------------ C19
\* C19: one received command line makes the bus call on_command at most
\* once, whatever start, stop and reload calls came before.
DispatchedOnce == lastEv.calls <= 1

\* ------------------------------------------------------------------ C20
\* C20: at most one listening socket of the controller is open at any time.
AtMostOneListener == Cardinality({s \in Threads : srv[s] = "listening"}) <= 1

====
